---- MODULE Spec2Model ----
(***************************************************************************)
(* The data-integrity subsystem of vocabmaster: the atomic CSV writer, the *)
(* timestamped backups and their retention, restore-from-backup, adding    *)
(* words and the translate run that merges the language model's answers.   *)
(*                                                                         *)
(* A file's content is a sequence of tokens: a token is one separator      *)
(* character (line feed, carriage return, tab, comma) or one field atom.   *)
(* The text operations (strip, split, the csv module) are computed on the  *)
(* tokens as Python computes them on the characters.                       *)
(***************************************************************************)
EXTENDS Integers, Sequences, FiniteSets, TLC

VARIABLES
    bdir,       \* the backup directory: a set of backup files [stem, ts, mtime]
    bcalls,     \* per stem, the snapshot calls made so far (also the stem's clock)
    bpre,       \* per stem, the backups the directory held at the start
    live,       \* the vocabulary file of the pair: [exists, text, mode]
    tmp,        \* the .csv_*.tmp file of atomic_write_csv: [exists, text, mode]
    extbak,     \* the backup file the user can name in a restore
    prebak,     \* the pre_restore_{ts}.bak files: prebak[ts] is the text of one
    pc,         \* where the running operation stands
    op,         \* the running operation: its kind, the file it found, what it writes
    res,        \* what the operation returned
    undo,       \* the last successful restore: its pre-restore backup, the prior file
    restores,   \* restore calls made so far
    pure,       \* the last call of a function on its own: [fn, args, out]
    rawbak,     \* a raw backup of an answer, gpt_request_<timestamp>.bak
    migrated    \* the file a migration of the raw backup writes

backupVars == <<bdir, bcalls, bpre>>
fileVars == <<live, tmp, extbak, prebak, pc, op, res, undo, restores>>

pureVars == <<pure, rawbak, migrated>>

vars == <<bdir, bcalls, bpre, live, tmp, extbak, prebak, pc, op, res, undo, restores, pure,
          rawbak, migrated>>

(***************************************************************************)
(* Tokens and Python's text operations                                     *)
(***************************************************************************)
NL == "\n"
CR == "\r"
TAB == "\t"
COMMA == ","
SP == " "
\* a byte that is not valid UTF-8
BadByte == "\\xff"

\* str.strip() removes these from both ends
Whitespace == {NL, CR, TAB, SP}

RECURSIVE LStrip(_)
LStrip(t) ==
    IF t # <<>> /\ Head(t) \in Whitespace THEN LStrip(Tail(t)) ELSE t

RECURSIVE RStrip(_)
RStrip(t) ==
    IF t # <<>> /\ t[Len(t)] \in Whitespace
    THEN RStrip(SubSeq(t, 1, Len(t) - 1))
    ELSE t

Strip(t) == RStrip(LStrip(t))

\* str.split(sep): the pieces between the separators, at least one piece
RECURSIVE Split(_, _)
Split(t, sep) ==
    IF \E i \in 1..Len(t) : t[i] = sep
    THEN LET i == CHOOSE k \in 1..Len(t) :
                      t[k] = sep /\ \A j \in 1..(k - 1) : t[j] # sep
         IN  <<SubSeq(t, 1, i - 1)>> \o Split(SubSeq(t, i + 1, Len(t)), sep)
    ELSE <<t>>

IsBlank(t) == Strip(t) = <<>>

\* reading the text as UTF-8 raises UnicodeDecodeError
Undecodable(t) == \E i \in 1..Len(t) : t[i] = BadByte

NonBlank(lines) == SelectSeq(lines, LAMBDA l : ~IsBlank(l))

Min(a, b) == IF a <= b THEN a ELSE b

(***************************************************************************)
(* Files and the csv module                                                *)
(*                                                                         *)
(* Fields hold no comma, quote or line break, so csv quoting never         *)
(* applies: a row is written as its fields joined by commas and CR LF.     *)
(***************************************************************************)
Absent == [exists |-> FALSE, text |-> <<>>, mode |-> "none"]
File(text, mode) == [exists |-> TRUE, text |-> text, mode |-> mode]

DefaultMode == "0644"
TempMode == "0600"

RECURSIVE Flatten(_)
Flatten(ss) == IF ss = <<>> THEN <<>> ELSE Head(ss) \o Flatten(Tail(ss))

Range(f) == {f[i] : i \in DOMAIN f}

\* the lines of a text, each with its line feed (the last one may have none)
RECURSIVE SplitLines(_)
SplitLines(t) ==
    IF t = <<>> THEN <<>>
    ELSE IF \E i \in 1..Len(t) : t[i] = NL
         THEN LET i == CHOOSE k \in 1..Len(t) :
                           t[k] = NL /\ \A j \in 1..(k - 1) : t[j] # NL
              IN  <<SubSeq(t, 1, i)>> \o SplitLines(SubSeq(t, i + 1, Len(t)))
         ELSE <<t>>

\* a text read in text mode: CR LF and CR become LF
RECURSIVE UniversalNewlines(_)
UniversalNewlines(t) ==
    IF t = <<>> THEN <<>>
    ELSE IF Head(t) = CR
         THEN IF Len(t) >= 2 /\ t[2] = NL
              THEN <<NL>> \o UniversalNewlines(SubSeq(t, 3, Len(t)))
              ELSE <<NL>> \o UniversalNewlines(Tail(t))
         ELSE <<Head(t)>> \o UniversalNewlines(Tail(t))

CSV_FIELDNAMES == << <<"word">>, <<"translation">>, <<"example">> >>

RECURSIVE JoinFields(_, _)
JoinFields(fields, sep) ==
    IF fields = <<>> THEN <<>>
    ELSE IF Len(fields) = 1 THEN Head(fields)
         ELSE Head(fields) \o <<sep>> \o JoinFields(Tail(fields), sep)

\* csv.writer(...).writerow(fields), DictWriter.writerow(row)
CsvLine(fields) == JoinFields(fields, COMMA) \o <<CR, NL>>
HeaderLine == CsvLine(CSV_FIELDNAMES)
RowLine(row) == CsvLine(<<row.word, row.translation, row.example>>)

\* what DictWriter writes for a table: writeheader, then one writerow per row
RenderCsv(rows) == <<HeaderLine>> \o [i \in 1..Len(rows) |-> RowLine(rows[i])]

Row(w, t, e) == [word |-> w, translation |-> t, example |-> e]

\* the first line of a text read in text mode, without its line break
FirstLine(t) == Head(Split(UniversalNewlines(t), NL))

\* csv.DictReader(file).fieldnames: the first row; None (here FALSE) without one
HasFieldnames(t) == t # <<>>
Fieldnames(t) ==
    IF FirstLine(t) = <<>> THEN <<>> ELSE Split(FirstLine(t), COMMA)

\* the data rows csv.DictReader yields: the lines after the first, empty ones skipped
DataLines(t) ==
    LET lines == Split(UniversalNewlines(t), NL)
    IN  SelectSeq(Tail(lines), LAMBDA l : l # <<>>)

\* utils.validate_backup_parseable
validate_backup_parseable(f) ==
    IF ~f.exists
    THEN [valid |-> FALSE, rows |-> 0, error |-> "File does not exist"]
    ELSE IF Undecodable(f.text)
    THEN [valid |-> FALSE, rows |-> 0, error |-> "File decode error"]
    ELSE IF ~HasFieldnames(f.text)
    THEN [valid |-> FALSE, rows |-> 0, error |-> "No header row found"]
    ELSE IF ~(Range(CSV_FIELDNAMES) \subseteq Range(Fieldnames(f.text)))
    THEN [valid |-> FALSE, rows |-> 0, error |-> "Missing required columns"]
    ELSE [valid |-> TRUE, rows |-> Len(DataLines(f.text)), error |-> "none"]

\* the lines recovery.py works on: read_text().strip().split("\n"), blank ones dropped
HeaderlessLines(t) == NonBlank(Split(Strip(UniversalNewlines(t)), NL))

\* recovery._is_valid_headerless_backup
IsValidHeaderlessBackup(t) ==
    LET lines == HeaderlessLines(t)
    IN  /\ lines # <<>>
        /\ \A i \in 1..Len(lines) : Len(Split(lines[i], TAB)) \in {3, 4}

\* the row recovery._migrate_headerless_to_csv writes for one line
MigratedRow(line) ==
    LET parts == Split(line, TAB)
    IN  IF Len(parts) = 3 THEN Row(parts[1], parts[2], parts[3])
        ELSE Row(parts[2], parts[3], parts[4])

\* what recovery._migrate_headerless_to_csv writes, write by write
MigratedChunks(t) ==
    LET lines == HeaderlessLines(t)
    IN  RenderCsv([i \in 1..Len(lines) |-> MigratedRow(lines[i])])

\* ensure_csv_has_fieldnames: the check of the first line
StartsWithHeader(t) ==
    LET h == JoinFields(CSV_FIELDNAMES, COMMA)
    IN  Len(t) >= Len(h) /\ SubSeq(t, 1, Len(h)) = h

\* ensure_csv_has_fieldnames: what write_with_header writes, write by write
WithHeaderChunks(t) == <<HeaderLine, UniversalNewlines(t)>>

\* csv_handler.sanitize_csv_value, on the characters of a value
Digits == {"0", "1", "2", "3", "4", "5", "6", "7", "8", "9"}
Quoted(value) == <<"'">> \o value

sanitize_csv_value(value) ==
    IF value = <<>> THEN value
    ELSE IF Head(value) \in {"=", "+", "@", TAB, CR, NL} THEN Quoted(value)
    ELSE IF Head(value) = "-"
    THEN IF Len(value) > 1 /\ (value[2] \in Digits \/ value[2] \in {"=", "+", "-", "@"})
         THEN Quoted(value)
         ELSE IF \E i \in 2..Len(value) : value[i] \in Digits
         THEN Quoted(value)
         ELSE IF \E i \in 1..Len(value) : value[i] \in {"|", "!", "("}
         THEN Quoted(value)
         ELSE value
    ELSE value

(***************************************************************************)
(* The operations on the vocabulary file, step by step                     *)
(*                                                                         *)
(* pc: idle; ap_write (append_word); aw_mkstemp, aw_write, aw_chmod,       *)
(* aw_replace, aw_except (atomic_write_csv); rs_snapshot, rs_commit,       *)
(* rs_write (restore_vocabulary_from_backup); returned, raised, killed.    *)
(* A write adds one line: what one write call of the code hands over.      *)
(***************************************************************************)
NoCall == [fn |-> "none", args |-> <<>>, out |-> <<>>]
NoPath == [kind |-> "none", ts |-> 0]
NoEntries == [type |-> "none", items |-> <<>>]
NoOp ==
    [kind |-> "none", old |-> Absent, chunks |-> <<>>, written |-> 0,
     fail |-> "none", cleanup |-> "none", path |-> NoPath, needs |-> FALSE, pre |-> 0,
     precount |-> 0, isundo |-> FALSE, prior |-> Absent,
     rows |-> <<>>, accepted |-> {}, entries |-> NoEntries,
     response |-> <<>>, mismatches |-> <<>>, answers |-> <<>>, skip |-> {},
     missing |-> <<>>, snaps |-> <<>>]
NoRes == [success |-> FALSE, restored |-> FALSE, pre |-> 0, error |-> "none"]
NoUndo == [pre |-> 0, prior |-> Absent]

Failure(error, pre) ==
    [success |-> FALSE, restored |-> FALSE, pre |-> pre, error |-> error]

AtomicKinds == {"ensure_header", "translate_write"}

\* csv_handler.append_word: the row it is about to write
append_word(word) ==
    [NoOp EXCEPT !.kind = "append_word", !.old = live,
                 !.chunks = <<RowLine(Row(sanitize_csv_value(word), <<>>, <<>>))>>]

\* csv_handler.append_word: open(path, "a") and one writerow
AppendCall(word) ==
    /\ pc = "idle"
    /\ op' = append_word(word)
    /\ pc' = "ap_write"
    /\ UNCHANGED <<backupVars, pureVars, live, tmp, extbak, prebak, res, undo, restores>>

AppendWrite ==
    /\ pc = "ap_write"
    /\ live' = File(live.text \o op.chunks[1],
                    IF live.exists THEN live.mode ELSE DefaultMode)
    /\ op' = [op EXCEPT !.written = 1]
    /\ pc' = "returned"
    /\ UNCHANGED <<backupVars, pureVars, tmp, extbak, prebak, res, undo, restores>>

\* csv_handler.ensure_csv_has_fieldnames: nothing to do, or an atomic write
EnsureHeaderCall ==
    /\ pc = "idle"
    /\ live.exists
    /\ IF StartsWithHeader(live.text)
       THEN /\ op' = [NoOp EXCEPT !.kind = "ensure_header", !.old = live,
                                  !.chunks = <<live.text>>]
            /\ pc' = "returned"
       ELSE /\ op' = [NoOp EXCEPT !.kind = "ensure_header", !.old = live,
                                  !.chunks = WithHeaderChunks(live.text)]
            /\ pc' = "aw_mkstemp"
    /\ UNCHANGED <<backupVars, pureVars, live, tmp, extbak, prebak, res, undo, restores>>

\* Python values: None, a list, a dict of items [key, val]; a value of a dict
\* is a str or a dict with some keys
PyNone == [type |-> "NoneType", items |-> <<>>]
PyList == [type |-> "list", items |-> <<>>]
PyDict(items) == [type |-> "dict", items |-> items]
PyStr == [type |-> "str", keys |-> {}, row |-> Row(<<>>, <<>>, <<>>)]
PyRow(row) == [type |-> "dict", keys |-> Range(CSV_FIELDNAMES), row |-> row]
PyRowWithout(row, missing) == [PyRow(row) EXCEPT !.keys = @ \ missing]

\* a validation that looks at the number of entries only
ValidateCountOnly(entries) ==
    IF entries.type = "NoneType"
    THEN [valid |-> FALSE, entry_count |-> 0, error |-> "Entries dictionary is None"]
    ELSE IF entries.type # "dict"
    THEN [valid |-> FALSE, entry_count |-> 0, error |-> "Entries must be a dictionary"]
    ELSE IF Len(entries.items) = 0
    THEN [valid |-> FALSE, entry_count |-> 0, error |-> "No entries to write"]
    ELSE [valid |-> TRUE, entry_count |-> Len(entries.items), error |-> "none"]

\* csv_handler.validate_entries_before_write
validate_entries_before_write(entries) ==
    IF entries.type = "NoneType"
    THEN [valid |-> FALSE, entry_count |-> 0, error |-> "Entries dictionary is None"]
    ELSE IF entries.type # "dict"
    THEN [valid |-> FALSE, entry_count |-> 0, error |-> "Entries must be a dictionary"]
    ELSE IF Len(entries.items) = 0
    THEN [valid |-> FALSE, entry_count |-> 0, error |-> "No entries to write"]
    ELSE IF \E i \in 1..Len(entries.items) : entries.items[i].val.type # "dict"
    THEN [valid |-> FALSE, entry_count |-> Len(entries.items),
          error |-> "Entry is not a dictionary"]
    ELSE IF \E i \in 1..Len(entries.items) :
                ~(Range(CSV_FIELDNAMES) \subseteq entries.items[i].val.keys)
    THEN [valid |-> FALSE, entry_count |-> Len(entries.items),
          error |-> "Entry missing keys"]
    ELSE [valid |-> TRUE, entry_count |-> Len(entries.items), error |-> "none"]

\* the rows write_translations writes for the entries
EntryRows(entries) == [i \in 1..Len(entries.items) |-> entries.items[i].val.row]

\* add_translations_and_examples_to_file, lines 599-632: the merged entries are
\* validated, then atomic_write_csv(path, write_translations)
TranslateWriteCall(entries) ==
    /\ pc = "idle"
    /\ live.exists
    /\ IF validate_entries_before_write(entries).valid
       THEN /\ op' = [NoOp EXCEPT !.kind = "translate_write", !.old = live,
                                  !.entries = entries,
                                  !.chunks = RenderCsv(EntryRows(entries))]
            /\ pc' = "aw_mkstemp"
       ELSE /\ op' = [NoOp EXCEPT !.kind = "translate_write", !.old = live,
                                  !.entries = entries,
                                  !.fail = "ValidationError"]
            /\ pc' = "raised"
    /\ UNCHANGED <<backupVars, pureVars, live, tmp, extbak, prebak, res, undo, restores>>

\* atomic_write_csv: tempfile.mkstemp in the target's directory
AwMkstemp ==
    /\ pc = "aw_mkstemp"
    /\ tmp' = File(<<>>, TempMode)
    /\ pc' = "aw_write"
    /\ UNCHANGED <<backupVars, pureVars, live, extbak, prebak, op, res, undo, restores>>

AwMkstempFail ==
    /\ pc = "aw_mkstemp"
    /\ op' = [op EXCEPT !.fail = "mkstemp"]
    /\ pc' = "raised"
    /\ UNCHANGED <<backupVars, pureVars, live, tmp, extbak, prebak, res, undo, restores>>

\* a writer that writes into the target itself
AwWriteInPlace ==
    /\ pc = "aw_write"
    /\ op.written < Len(op.chunks)
    /\ live' = [live EXCEPT !.text =
                   IF op.written = 0 THEN op.chunks[1] ELSE @ \o op.chunks[op.written + 1]]
    /\ op' = [op EXCEPT !.written = @ + 1]
    /\ UNCHANGED <<backupVars, pureVars, tmp, extbak, prebak, pc, res, undo, restores>>

\* write_function(file): one write into the temporary file
AwWrite ==
    /\ pc = "aw_write"
    /\ op.written < Len(op.chunks)
    /\ tmp' = [tmp EXCEPT !.text = @ \o op.chunks[op.written + 1]]
    /\ op' = [op EXCEPT !.written = @ + 1]
    /\ UNCHANGED <<backupVars, pureVars, live, extbak, prebak, pc, res, undo, restores>>

AwWriterReturn ==
    /\ pc = "aw_write"
    /\ op.written = Len(op.chunks)
    /\ pc' = "aw_chmod"
    /\ UNCHANGED <<backupVars, pureVars, live, tmp, extbak, prebak, op, res, undo, restores>>

\* write_function raises an Exception after any number of writes
AwWriterRaise ==
    /\ pc = "aw_write"
    /\ op' = [op EXCEPT !.fail = "writer"]
    /\ pc' = "aw_except"
    /\ UNCHANGED <<backupVars, pureVars, live, tmp, extbak, prebak, res, undo, restores>>

\* os.chmod(temp_path, existing_mode), when the target existed
AwChmod ==
    /\ pc = "aw_chmod"
    /\ tmp' = IF op.old.exists THEN [tmp EXCEPT !.mode = op.old.mode] ELSE tmp
    /\ pc' = "aw_replace"
    /\ UNCHANGED <<backupVars, pureVars, live, extbak, prebak, op, res, undo, restores>>

AwChmodFail ==
    /\ pc = "aw_chmod"
    /\ op.old.exists
    /\ op' = [op EXCEPT !.fail = "chmod"]
    /\ pc' = "aw_except"
    /\ UNCHANGED <<backupVars, pureVars, live, tmp, extbak, prebak, res, undo, restores>>

\* os.replace(temp_path, filepath)
AwReplace ==
    /\ pc = "aw_replace"
    /\ live' = tmp
    /\ tmp' = Absent
    /\ pc' = "returned"
    /\ UNCHANGED <<backupVars, pureVars, extbak, prebak, op, res, undo, restores>>

AwReplaceFail ==
    /\ pc = "aw_replace"
    /\ op' = [op EXCEPT !.fail = "replace"]
    /\ pc' = "aw_except"
    /\ UNCHANGED <<backupVars, pureVars, live, tmp, extbak, prebak, res, undo, restores>>

\* a handler that re-raises without unlinking the temporary file
AwExceptKeepTemp ==
    /\ pc = "aw_except"
    /\ pc' = "raised"
    /\ UNCHANGED <<backupVars, pureVars, live, tmp, extbak, prebak, op, res, undo, restores>>

\* except Exception: os.unlink(temp_path); raise
AwExcept ==
    /\ pc = "aw_except"
    /\ tmp' = Absent
    /\ op' = [op EXCEPT !.cleanup = "unlinked"]
    /\ pc' = "raised"
    /\ UNCHANGED <<backupVars, pureVars, live, extbak, prebak, res, undo, restores>>

\* except Exception: os.unlink raises OSError, which is passed over; raise
AwExceptUnlinkFail ==
    /\ pc = "aw_except"
    /\ op' = [op EXCEPT !.cleanup = "failed"]
    /\ pc' = "raised"
    /\ UNCHANGED <<backupVars, pureVars, live, tmp, extbak, prebak, res, undo, restores>>

(***************************************************************************)
(* recovery.restore_vocabulary_from_backup                                 *)
(***************************************************************************)
MaxRestores == 2

\* the file at a backup path
BackupAt(path) ==
    IF path.kind = "external" THEN extbak
    ELSE IF path.kind = "pre" THEN File(prebak[path.ts], DefaultMode)
    ELSE Absent

\* the paths a restore can be given: none, the user's backup, a pre-restore backup
RestorePaths ==
    {[kind |-> "missing", ts |-> 0], [kind |-> "external", ts |-> 0]}
        \cup {[kind |-> "pre", ts |-> i] : i \in 1..Len(prebak)}

\* lines 111-144: the backup exists and is parseable, or is a headerless backup
RestoreCall(path) ==
    LET b == BackupAt(path)
        validation == validate_backup_parseable(b)
        needs_header_migration == ~validation.valid
        started == [NoOp EXCEPT !.kind = "restore", !.old = live, !.path = path,
                                !.precount = Len(prebak),
                                !.isundo = (path.kind = "pre" /\ path.ts = undo.pre),
                                !.prior = undo.prior]
    IN  /\ pc = "idle"
        /\ restores < MaxRestores
        /\ restores' = restores + 1
        /\ IF ~b.exists
           THEN /\ res' = Failure("Backup file does not exist", 0)
                /\ op' = started
                /\ pc' = "returned"
           ELSE IF ~validation.valid /\ Undecodable(b.text)
           THEN \* _is_valid_headerless_backup catches OSError only
                /\ res' = NoRes
                /\ op' = [started EXCEPT !.fail = "decode"]
                /\ pc' = "raised"
           ELSE IF ~validation.valid /\ ~IsValidHeaderlessBackup(b.text)
           THEN /\ res' = Failure("Backup validation failed", 0)
                /\ op' = started
                /\ pc' = "returned"
           ELSE /\ res' = NoRes
                /\ op' = [started EXCEPT
                            !.needs = needs_header_migration,
                            !.chunks = IF needs_header_migration
                                       THEN MigratedChunks(b.text)
                                       ELSE SplitLines(b.text)]
                /\ pc' = "rs_snapshot"
        /\ UNCHANGED <<backupVars, pureVars, live, tmp, extbak, prebak, undo>>

\* a restore that goes on to the commit without the pre-restore copy
RestoreSnapshotSkipped ==
    /\ pc = "rs_snapshot"
    /\ pc' = "rs_commit"
    /\ UNCHANGED <<backupVars, pureVars, live, tmp, extbak, prebak, op, res, undo, restores>>

\* lines 146-153: shutil.copy(translations_path, pre_restore_{timestamp}.bak)
RestoreSnapshot ==
    /\ pc = "rs_snapshot"
    /\ IF live.exists
       THEN /\ prebak' = Append(prebak, live.text)
            /\ op' = [op EXCEPT !.pre = Len(prebak) + 1]
       ELSE UNCHANGED <<prebak, op>>
    /\ pc' = "rs_commit"
    /\ UNCHANGED <<backupVars, pureVars, live, tmp, extbak, res, undo, restores>>

\* lines 154-160: the copy raises OSError, before or after it created the file
RestoreSnapshotFail ==
    /\ pc = "rs_snapshot"
    /\ live.exists
    /\ \E created \in BOOLEAN :
           prebak' = IF created THEN Append(prebak, <<>>) ELSE prebak
    /\ op' = [op EXCEPT !.fail = "snapshot"]
    /\ res' = Failure("Failed to create pre-restore backup", 0)
    /\ pc' = "returned"
    /\ UNCHANGED <<backupVars, pureVars, live, tmp, extbak, undo, restores>>

\* open(output_path, "w") of _migrate_headerless_to_csv, open(dst, "wb") of
\* shutil.copy: the vocabulary file is created or truncated
RestoreCommitOpen ==
    /\ pc = "rs_commit"
    /\ live' = File(<<>>, IF live.exists THEN live.mode ELSE DefaultMode)
    /\ pc' = "rs_write"
    /\ UNCHANGED <<backupVars, pureVars, tmp, extbak, prebak, op, res, undo, restores>>

\* the header and the rows, or the backup's content, one write after the other
RestoreWrite ==
    /\ pc = "rs_write"
    /\ op.written < Len(op.chunks)
    /\ live' = [live EXCEPT !.text = @ \o op.chunks[op.written + 1]]
    /\ op' = [op EXCEPT !.written = @ + 1]
    /\ UNCHANGED <<backupVars, pureVars, tmp, extbak, prebak, pc, res, undo, restores>>

\* a failed commit reported without the path of the pre-restore backup
RestoreCommitFailNoPath ==
    /\ pc \in {"rs_commit", "rs_write"}
    /\ op' = [op EXCEPT !.fail = "commit"]
    /\ res' = Failure(IF op.needs THEN "Failed to migrate headerless backup"
                      ELSE "Failed to restore from backup", 0)
    /\ pc' = "returned"
    /\ UNCHANGED <<backupVars, pureVars, live, tmp, extbak, prebak, undo, restores>>

\* lines 166-181: the migration returns False, or the copy raises OSError
RestoreCommitFail ==
    /\ pc \in {"rs_commit", "rs_write"}
    /\ op' = [op EXCEPT !.fail = "commit"]
    /\ res' = Failure(IF op.needs THEN "Failed to migrate headerless backup"
                      ELSE "Failed to restore from backup", op.pre)
    /\ pc' = "returned"
    /\ UNCHANGED <<backupVars, pureVars, live, tmp, extbak, prebak, undo, restores>>

\* lines 183-188: the file is closed (shutil.copy then copies the mode bits)
RestoreCommitDone ==
    /\ pc = "rs_write"
    /\ op.written = Len(op.chunks)
    /\ live' = IF op.needs THEN live
               ELSE [live EXCEPT !.mode = BackupAt(op.path).mode]
    /\ res' = [success |-> TRUE, restored |-> TRUE, pre |-> op.pre, error |-> "none"]
    /\ undo' = IF op.pre # 0 THEN [pre |-> op.pre, prior |-> op.old] ELSE NoUndo
    /\ pc' = "returned"
    /\ UNCHANGED <<backupVars, pureVars, tmp, extbak, prebak, op, restores>>

\* after a successful restore the user gives the next command
NextCommand ==
    /\ pc = "returned"
    /\ res.success
    /\ pc' = "idle"
    /\ op' = NoOp
    /\ res' = NoRes
    /\ UNCHANGED <<backupVars, pureVars, live, tmp, extbak, prebak, undo, restores>>

\* the process is killed in the middle of an operation
Kill ==
    /\ pc \notin {"idle", "returned", "raised", "killed"}
    /\ pc' = "killed"
    /\ UNCHANGED <<backupVars, pureVars, live, tmp, extbak, prebak, op, res, undo, restores>>

(***************************************************************************)
(* Backups and their retention (utils.backup_file, utils.backup_content)   *)
(*                                                                         *)
(* A backup file is [stem, ts, mtime]: its name is {stem}_{ts}.bak.  The    *)
(* code compares modification times only among the files one glob returns, *)
(* all of one stem, so each stem keeps its own clock: the stem's n-th      *)
(* snapshot gets timestamp and modification time bpre + n.                 *)
(***************************************************************************)
BackupFileCap == 10
BackupContentCap == 15

MaxPreexisting == 12
MaxFileSnapshots == 12
MaxRawSnapshots == 17

FileStems == {"vocab_list_en-fr", "anki_deck_en-fr"}
RawStem == "gpt_request"
AllStems == FileStems \cup {RawStem}

\* backup_dir.glob(f"{stem}_*.bak")
Glob(dir, stem) == {f \in dir : f.stem = stem}

\* sorted(files, key=lambda p: p.stat().st_mtime)
RECURSIVE SortByMtime(_)
SortByMtime(S) ==
    IF S = {} THEN <<>>
    ELSE LET m == CHOOSE x \in S : \A y \in S : x.mtime <= y.mtime
         IN  <<m>> \o SortByMtime(S \ {m})

NewBackup(stem, now) == [stem |-> stem, ts |-> now, mtime |-> now]

\* a pruning that unlinks the newest file instead of the oldest
PruneNewest(dir, stem, cap) ==
    LET backup_files == SortByMtime(Glob(dir, stem))
    IN  IF Len(backup_files) > cap
        THEN dir \ {backup_files[Len(backup_files)]}
        ELSE dir

\* the pruning that ends a snapshot call: the oldest file goes
Prune(dir, stem, cap) ==
    LET backup_files == SortByMtime(Glob(dir, stem))
    IN  IF Len(backup_files) > cap THEN dir \ {backup_files[1]} ELSE dir

backup_file(dir, stem, now) ==
    Prune(dir \cup {NewBackup(stem, now)}, stem, BackupFileCap)

backup_content(dir, now) ==
    Prune(dir \cup {NewBackup(RawStem, now)}, RawStem, BackupContentCap)

(***************************************************************************)
(* cli.add: validate_word, word_exists, append_word                        *)
(***************************************************************************)
MaxRows == 3

\* a row as csv.DictReader reads it from a line
ParseRow(line) ==
    LET f == Split(line, COMMA)
    IN  Row(f[1], IF Len(f) >= 2 THEN f[2] ELSE <<>>, IF Len(f) >= 3 THEN f[3] ELSE <<>>)

ParseRows(lines) == [i \in 1..Len(lines) |-> ParseRow(lines[i])]

\* the rows DictReader(file, fieldnames=CSV_FIELDNAMES) yields: every line is data
FileRows(t) ==
    ParseRows(SelectSeq(Split(UniversalNewlines(t), NL), LAMBDA l : l # <<>>))

\* the rows DictReader(file) yields: the first line names the columns
TableRows(t) == ParseRows(DataLines(t))

\* csv_handler.word_exists
word_exists(word, t) == \E i \in 1..Len(FileRows(t)) : FileRows(t)[i].word = word

\* cli.validate_word: the word stripped, or why it is refused
validate_word(word, confirm) ==
    LET w == Strip(word)
    IN  IF w = <<>> THEN [ok |-> FALSE, word |-> w, error |-> "Word cannot be empty"]
        ELSE IF \E i \in 1..Len(w) : w[i] \in {NL, CR}
        THEN [ok |-> FALSE, word |-> w, error |-> "Word cannot contain newlines"]
        ELSE IF Head(w) \in {"=", "+", "-", "@"} /\ ~confirm
        THEN [ok |-> FALSE, word |-> w, error |-> "Abort"]
        ELSE [ok |-> TRUE, word |-> w, error |-> "none"]

\* vocabmaster add WORD, the user answering the formula warning with confirm
AddCommand(word, confirm) ==
    LET v == validate_word(word, confirm)
    IN  /\ pc = "idle"
        /\ live.exists
        /\ Len(FileRows(live.text)) < MaxRows
        /\ IF ~v.ok
           THEN /\ op' = [NoOp EXCEPT !.kind = "add", !.old = live, !.fail = v.error]
                /\ pc' = "returned"
           ELSE IF word_exists(v.word, live.text)
           THEN /\ op' = [NoOp EXCEPT !.kind = "add", !.old = live, !.fail = "exists"]
                /\ pc' = "returned"
           ELSE /\ op' = append_word(v.word)
                /\ pc' = "ap_write"
        /\ UNCHANGED <<backupVars, pureVars, live, tmp, extbak, prebak, res, undo, restores>>

\* the command has ended and the user gives the next one
AddDone ==
    /\ pc = "returned"
    /\ op.kind \in {"add", "append_word"}
    /\ pc' = "idle"
    /\ op' = NoOp
    /\ UNCHANGED <<backupVars, pureVars, live, tmp, extbak, prebak, res, undo, restores>>

(***************************************************************************)
(* csv_handler.add_translations_and_examples_to_file                       *)
(*                                                                         *)
(* A Python dict is a sequence of [key, val] with distinct keys, in        *)
(* insertion order.                                                        *)
(***************************************************************************)
DictKeys(d) == {d[i].key : i \in DOMAIN d}

DictGet(d, k) == d[CHOOSE i \in DOMAIN d : d[i].key = k].val

\* d[k] = v: an existing key keeps its place, a new one goes to the end
DictSet(d, k, v) ==
    IF k \in DictKeys(d)
    THEN [i \in DOMAIN d |-> IF d[i].key = k THEN [key |-> k, val |-> v] ELSE d[i]]
    ELSE Append(d, [key |-> k, val |-> v])

DictDel(d, k) == SelectSeq(d, LAMBDA e : e.key # k)

\* {row["word"]: row for row in translations_reader}
RECURSIVE DictFromRows(_, _)
DictFromRows(d, rows) ==
    IF rows = <<>> THEN d
    ELSE DictFromRows(DictSet(d, Head(rows).word, Head(rows)), Tail(rows))

\* get_words_to_translate: the words of the rows without translation or example
get_words_to_translate(rows) ==
    LET pending == SelectSeq(rows, LAMBDA r : r.translation = <<>> \/ r.example = <<>>)
    IN  [i \in 1..Len(pending) |-> pending[i].word]

\* None, what dict.get gives for a key that is absent or holds None
None == <<"None">>

\* a str that Python takes for true: neither None nor empty
Truthy(value) == value # None /\ value # <<>>

\* a check that takes a value of white space for a word
IsNoneOrEmpty(value) == value = None \/ value = <<>>

\* csv_handler._is_missing_or_blank
is_missing_or_blank(value) == value = None \/ Strip(value) = <<>>

\* the letters of a word in lower case
Lower(word) == [i \in 1..Len(word) |-> IF word[i] = "A" THEN "a" ELSE word[i]]

\* a check of one word that takes a difference of case for no difference
WordCheckIgnoreCase(original_word, original_words, gpt_response) ==
    IF original_word \in {e.key : e \in Range(gpt_response)}
    THEN LET recognized_word ==
                 gpt_response[CHOOSE i \in DOMAIN gpt_response :
                                  gpt_response[i].key = original_word].val.recognized_word
         IN  IF is_missing_or_blank(recognized_word)
             THEN [kind |-> "missing", word |-> original_word, corrections |-> {}]
             ELSE IF Lower(recognized_word) # Lower(original_word)
             THEN [kind |-> "mismatch", word |-> original_word,
                   corrections |-> {recognized_word}]
             ELSE [kind |-> "match", word |-> original_word, corrections |-> {}]
    ELSE [kind |-> "missing", word |-> original_word, corrections |-> {}]

\* detect_word_mismatches, for one of the original words
WordCheck(original_word, original_words, gpt_response) ==
    IF original_word \notin DictKeys(gpt_response)
    THEN LET possible_corrections ==
                 {e.key : e \in {x \in Range(gpt_response) :
                                    /\ Truthy(x.val.recognized_word)
                                    /\ x.key # original_word
                                    /\ x.key \notin Range(original_words)}}
         IN  IF possible_corrections # {}
             THEN [kind |-> "mismatch", word |-> original_word,
                   corrections |-> possible_corrections]
             ELSE [kind |-> "missing", word |-> original_word, corrections |-> {}]
    ELSE LET recognized_word == DictGet(gpt_response, original_word).recognized_word
         IN  IF is_missing_or_blank(recognized_word)
             THEN [kind |-> "missing", word |-> original_word, corrections |-> {}]
             ELSE IF recognized_word # original_word
             THEN [kind |-> "mismatch", word |-> original_word,
                   corrections |-> {recognized_word}]
             ELSE [kind |-> "match", word |-> original_word, corrections |-> {}]

\* csv_handler.detect_word_mismatches: the mismatches, in the order of the words
detect_word_mismatches(original_words, gpt_response) ==
    SelectSeq([i \in 1..Len(original_words) |->
                   WordCheck(original_words[i], original_words, gpt_response)],
              LAMBDA c : c.kind = "mismatch")

\* csv_handler.detect_word_mismatches: the missing words, in the order of the words
missing_words(original_words, gpt_response) ==
    LET checks == SelectSeq([i \in 1..Len(original_words) |->
                                WordCheck(original_words[i], original_words, gpt_response)],
                            LAMBDA c : c.kind = "missing")
    IN  [i \in 1..Len(checks) |-> checks[i].word]

\* a call of detect_word_mismatches and the two lists it returns
DetectCall(original_words, gpt_response) ==
    /\ pure = NoCall
    /\ pure' = [fn |-> "detect_word_mismatches",
                args |-> [original_words |-> original_words,
                          gpt_response |-> gpt_response],
                out |-> [mismatches |-> detect_word_mismatches(original_words, gpt_response),
                         missing_words |-> missing_words(original_words, gpt_response)]]
    /\ UNCHANGED <<backupVars, fileVars, rawbak, migrated>>

\* csv_handler.update_word_in_entries
update_word_in_entries(current_entries, old_word, new_word) ==
    IF old_word \in DictKeys(current_entries)
    THEN LET moved == [DictGet(current_entries, old_word) EXCEPT !.word = new_word]
         IN  DictDel(DictSet(current_entries, new_word, moved), old_word)
    ELSE current_entries

NoEntry == [has |-> FALSE,
            val |-> [recognized_word |-> <<>>, translation |-> <<>>, example |-> <<>>]]

\* _entry_for_correction
entry_for_correction(new_entries, original_word, corrected_word) ==
    LET entry == IF original_word \in DictKeys(new_entries)
                 THEN [has |-> TRUE, val |-> DictGet(new_entries, original_word)]
                 ELSE NoEntry
        others == SelectSeq(new_entries, LAMBDA e : e.val.recognized_word = corrected_word)
    IN  IF entry.has /\ entry.val.recognized_word = corrected_word THEN entry
        ELSE IF others # <<>> THEN [has |-> TRUE, val |-> Head(others).val]
        ELSE entry

\* a row with the translation and the example of the answer, sanitised
Filled(row, data) ==
    [row EXCEPT !.translation = sanitize_csv_value(data.translation),
                !.example = sanitize_csv_value(data.example)]

\* lines 544-597: the user's answer to one mismatch. The answer is the word
\* typed at the prompt, or any word for "yes" at the confirmation; empty is "no"
AnswerMismatch(st, m, answer, new_entries) ==
    LET single == Cardinality(m.corrections) = 1
        corrected_word == IF single THEN CHOOSE c \in m.corrections : TRUE ELSE answer
        accept == answer # <<>> /\ (single \/ answer \in m.corrections)
        updated == update_word_in_entries(st.entries, m.word, corrected_word)
        entry_data == entry_for_correction(new_entries, m.word, corrected_word)
    IN  IF st.raised THEN st
        ELSE IF ~accept THEN [st EXCEPT !.skip = @ \cup {m.word}]
        ELSE IF entry_data.has /\ corrected_word \notin DictKeys(updated)
        THEN [st EXCEPT !.raised = TRUE]
        ELSE [st EXCEPT
                !.entries = IF entry_data.has
                            THEN DictSet(updated, corrected_word,
                                         Filled(DictGet(updated, corrected_word),
                                                entry_data.val))
                            ELSE updated,
                !.accepted = @ \cup {<<m.word, corrected_word>>}]

RECURSIVE AnswerMismatches(_, _, _, _)
AnswerMismatches(st, mismatches, answers, new_entries) ==
    IF mismatches = <<>> THEN st
    ELSE AnswerMismatches(AnswerMismatch(st, Head(mismatches), Head(answers), new_entries),
                          Tail(mismatches), Tail(answers), new_entries)

\* write_translations: the row written for one entry
WrittenRow(e, skip, new_entries) ==
    IF e.key \in skip \/ e.key \notin DictKeys(new_entries) THEN e.val
    ELSE LET entry_data == DictGet(new_entries, e.key)
         IN  IF /\ e.val.translation = <<>>
                /\ ~is_missing_or_blank(entry_data.recognized_word)
                /\ entry_data.recognized_word = e.key
             THEN Filled(e.val, entry_data)
             ELSE e.val

\* the answers the user can give to the mismatches, one after the other
RECURSIVE AnswerSeqs(_)
AnswerSeqs(mismatches) ==
    IF mismatches = <<>> THEN {<<>>}
    ELSE {<<a>> \o rest : a \in {<<>>} \cup Head(mismatches).corrections,
                          rest \in AnswerSeqs(Tail(mismatches))}

VocabStem == "vocab_list_en-fr"

\* current_entries as a Python value: a dict of the rows DictReader read
PyEntries(d) == PyDict([i \in 1..Len(d) |-> [key |-> d[i].key, val |-> PyRow(d[i].val)]])

\* a first snapshot taken once the header line is in the file
SnapshotAfterHeader(file, text) == text

\* line 503: what the first backup_file of the run copies, the vocabulary file
\* as the run found it; text is the file once the header line is in (line 506)
FirstSnapshot(file, text) == file.text

\* vocabmaster translate: the whole run, the language model answering with
\* new_entries (the parsed answer) and the user with answers; failure tells
\* whether the request to the model ("service") or the write of the file
\* ("write") raises
TranslateRun(new_entries, failure) ==
    /\ pc = "idle"
    /\ live.exists
    /\ \E text \in {IF StartsWithHeader(live.text) THEN live.text
                    ELSE Flatten(WithHeaderChunks(live.text))} :
       \E rows \in {TableRows(text)} :
       \E original_words \in {get_words_to_translate(rows)} :
       \E mismatches \in {detect_word_mismatches(original_words, new_entries)} :
       LET t1 == bcalls[VocabStem] + bpre[VocabStem] + 1
           dir1 == backup_file(bdir, VocabStem, t1)
           dir2 == backup_content(dir1, bcalls[RawStem] + bpre[RawStem] + 1)
           start == [entries |-> DictFromRows(<<>>, rows), skip |-> {}, accepted |-> {},
                     raised |-> FALSE]
           started == [NoOp EXCEPT !.kind = "translate", !.old = live, !.rows = rows,
                                   !.snaps = <<FirstSnapshot(live, text)>>]
       IN  IF original_words = <<>>
           THEN \* AllWordsTranslatedError, after the header was inserted
                /\ bdir' = dir1
                /\ bcalls' = [bcalls EXCEPT ![VocabStem] = @ + 1]
                /\ live' = [live EXCEPT !.text = text]
                /\ op' = [started EXCEPT !.fail = "AllWordsTranslatedError"]
                /\ pc' = "raised"
           ELSE IF failure = "service"
           THEN \* chatgpt_request raises, before backup_content
                /\ bdir' = dir1
                /\ bcalls' = [bcalls EXCEPT ![VocabStem] = @ + 1]
                /\ live' = [live EXCEPT !.text = text]
                /\ op' = [started EXCEPT !.fail = "ServiceError"]
                /\ pc' = "raised"
           ELSE \E answers \in AnswerSeqs(mismatches) :
                \E st \in {AnswerMismatches(start, mismatches, answers, new_entries)} :
                \E written \in {[i \in 1..Len(st.entries) |->
                                    WrittenRow(st.entries[i], st.skip, new_entries)]} :
                   IF st.raised
                   THEN \* KeyError: the corrected word is not in current_entries
                        /\ bdir' = dir2
                        /\ bcalls' = [bcalls EXCEPT ![VocabStem] = @ + 1,
                                                    ![RawStem] = @ + 1]
                        /\ live' = [live EXCEPT !.text = text]
                        /\ op' = [started EXCEPT !.fail = "KeyError"]
                        /\ pc' = "raised"
                   ELSE IF ~validate_entries_before_write(PyEntries(st.entries)).valid
                   THEN \* ValidationError, before the write
                        /\ bdir' = dir2
                        /\ bcalls' = [bcalls EXCEPT ![VocabStem] = @ + 1,
                                                    ![RawStem] = @ + 1]
                        /\ live' = [live EXCEPT !.text = text]
                        /\ op' = [started EXCEPT !.fail = "ValidationError"]
                        /\ pc' = "raised"
                   ELSE IF failure = "write"
                   THEN \* atomic_write_csv raises and leaves the file
                        /\ bdir' = dir2
                        /\ bcalls' = [bcalls EXCEPT ![VocabStem] = @ + 1,
                                                    ![RawStem] = @ + 1]
                        /\ live' = [live EXCEPT !.text = text]
                        /\ op' = [started EXCEPT !.fail = "OSError"]
                        /\ pc' = "raised"
                   ELSE /\ bdir' = backup_file(dir2, VocabStem, t1 + 1)
                        /\ bcalls' = [bcalls EXCEPT ![VocabStem] = @ + 2,
                                                    ![RawStem] = @ + 1]
                        /\ live' = [live EXCEPT !.text = Flatten(RenderCsv(written))]
                        /\ op' = [started EXCEPT !.chunks = RenderCsv(written),
                                                 !.written = Len(written) + 1,
                                                 !.accepted = st.accepted,
                                                 !.snaps =
                                                     Append(started.snaps,
                                                            Flatten(RenderCsv(written))),
                                                 !.response = new_entries,
                                                 !.mismatches = mismatches,
                                                 !.answers = answers,
                                                 !.skip = st.skip,
                                                 !.missing =
                                                     missing_words(original_words,
                                                                   new_entries)]
                        /\ pc' = "returned"
    /\ UNCHANGED <<bpre, pureVars, tmp, extbak, prebak, res, undo, restores>>

(***************************************************************************)
(* The files the operations start from                                     *)
(***************************************************************************)
MaxCols == 4

ColAtoms == <<"a", "b", "c", "d", "e", "f">>

RowA == Row(<<"a">>, <<>>, <<>>)
RowB == Row(<<"b">>, <<"t">>, <<"x">>)

\* the vocabulary file: none, empty after setup_files, after one add, with a header
LiveTexts ==
    { <<>>,
      RowLine(RowA),
      HeaderLine \o RowLine(RowA),
      HeaderLine \o RowLine(RowB) }

LiveChoices == {Absent} \cup {File(t, DefaultMode) : t \in LiveTexts}

\* the tables a translate run writes
Tables == { <<RowB>>, <<RowB, RowA>> }

PyItem(row) == [key |-> row.word, val |-> PyRow(row)]

\* the merged entries a translate run hands to the validation: the tables, and
\* values that are no dict of complete rows
MergedEntries ==
    {PyDict([i \in 1..Len(t) |-> PyItem(t[i])]) : t \in Tables}
        \cup { PyNone, PyList, PyDict(<<>>),
               PyDict(<<PyItem(RowB), [key |-> <<"a">>, val |-> PyStr]>>),
               PyDict(<<[key |-> <<"b">>, val |-> PyRowWithout(RowB, {<<"example">>})]>>),
               PyDict(<<PyItem(RowA),
                        [key |-> <<"b">>,
                         val |-> PyRowWithout(RowB, Range(CSV_FIELDNAMES))]>>) }

\* a tab-separated line of n atoms, with a tab before or after them
TsvLine(n, lead, trail) ==
    (IF lead THEN <<TAB>> ELSE <<>>)
        \o JoinFields([i \in 1..n |-> <<ColAtoms[i]>>], TAB)
        \o (IF trail THEN <<TAB>> ELSE <<>>)

TsvLines == {TsvLine(n, lead, trail) : n \in 2..MaxCols, lead \in BOOLEAN, trail \in BOOLEAN}

TsvSecondLines == {TsvLine(n, FALSE, FALSE) : n \in 2..4}

\* headerless backups of one or two lines, the last with or without its line feed
TsvTexts ==
    LET bodies == TsvLines
                    \cup {l1 \o <<NL>> \o l2 : l1 \in TsvLines, l2 \in TsvSecondLines}
                    \cup {l1 \o <<NL, NL>> \o l2 : l1 \in TsvSecondLines, l2 \in TsvSecondLines}
    IN  bodies \cup {b \o <<NL>> : b \in bodies}

\* backups with a header line: the program's own, and ones with other columns
CsvTexts ==
    { HeaderLine,
      HeaderLine \o RowLine(RowB),
      HeaderLine \o RowLine(RowA) \o RowLine(RowB),
      CsvLine(<< <<"word">>, <<"translation">> >>) \o CsvLine(<< <<"a">>, <<"t">> >>),
      CsvLine(<< <<"example">>, <<"word">>, <<"translation">> >>)
          \o CsvLine(<< <<"x">>, <<"b">>, <<"t">> >>),
      CsvLine(<< <<"word">>, <<"translation">>, <<"example">>, <<"notes">> >>)
          \o CsvLine(<< <<"b">>, <<"t">>, <<"x">>, <<"n">> >>) }

OtherTexts == { <<>>, <<NL>>, <<SP, NL>>, <<"a", BadByte, NL>>, <<"a", SP, "b", NL>> }

RestoreBackups == {File(t, DefaultMode) : t \in TsvTexts \cup CsvTexts \cup OtherTexts}

\* the backups of the runs that also add, insert the header and translate
LiveBackups ==
    { File(HeaderLine \o RowLine(RowB), DefaultMode),
      File(TsvLine(3, FALSE, FALSE) \o <<NL>> \o TsvLine(4, FALSE, FALSE) \o <<NL>>,
           DefaultMode) }

AddWords == { <<"a">>, <<"c">> }

\* the words the user adds
VocabWords == { <<"a">>, <<"b">>, <<SP, "a">>, <<"=", "x">>, <<SP>> }

ResponseWords == { <<"a">>, <<"b">>, <<"c">> }

\* what the answer gives as recognized_word: a word, nothing, a blank, a formula
RecognizedWords == ResponseWords \cup { <<>>, <<SP>>, <<"=", "x">> }

ResponseEntry(k, r, t) ==
    [key |-> k,
     val |-> [recognized_word |-> r, translation |-> t, example |-> <<"x">>]]

\* the entries of an answer; the translation can be a formula
ResponseEntries ==
    {ResponseEntry(k, r, <<"t">>) : k \in ResponseWords, r \in RecognizedWords}
        \cup {ResponseEntry(k, k, <<"=", "t">>) : k \in ResponseWords}

\* the parsed answers of the language model: no, one or two entries
Responses ==
    {<<>>} \cup {<<e>> : e \in ResponseEntries}
        \cup {<<p[1], p[2]>> : p \in {q \in ResponseEntries \X ResponseEntries :
                                         q[1].key # q[2].key}}

\* str.splitlines() of a text read with universal newlines
splitlines(content) ==
    IF content = <<>> THEN <<>>
    ELSE IF content[Len(content)] = NL
         THEN Split(SubSeq(content, 1, Len(content) - 1), NL)
         ELSE Split(content, NL)

FormatInfo(version, error) == [version |-> version, error |-> error]

\* a detection that takes a backup with some 3-column lines for a 3-column one
GetVersionAnyThree(file) ==
    LET lines == NonBlank(splitlines(UniversalNewlines(file.text)))
        counts == {Len(Split(lines[i], TAB)) : i \in DOMAIN lines}
    IN  IF ~file.exists THEN FormatInfo("unknown", "File does not exist")
        ELSE IF Undecodable(file.text) THEN FormatInfo("unknown", "File decode error")
        ELSE IF lines = <<>> THEN FormatInfo("unknown", "Empty file")
        ELSE IF counts \ {3, 4} # {} THEN FormatInfo("unknown", "Line has columns")
        ELSE IF 3 \in counts THEN FormatInfo("3-col", "None")
        ELSE FormatInfo("4-col", "None")

\* utils.get_backup_format_version, for a file named gpt_request_*.bak
get_backup_format_version(file) ==
    LET lines == NonBlank(splitlines(UniversalNewlines(file.text)))
        column_counts == {Len(Split(lines[i], TAB)) : i \in DOMAIN lines}
    IN  IF ~file.exists THEN FormatInfo("unknown", "File does not exist")
        ELSE IF Undecodable(file.text) THEN FormatInfo("unknown", "File decode error")
        ELSE IF lines = <<>> THEN FormatInfo("unknown", "Empty file")
        ELSE IF column_counts \ {3, 4} # {} THEN FormatInfo("unknown", "Line has columns")
        ELSE IF column_counts = {3} THEN FormatInfo("3-col", "None")
        ELSE IF column_counts = {4} THEN FormatInfo("4-col", "None")
        ELSE FormatInfo("mixed", "Mixed column counts in GPT response backup")

\* a call of get_backup_format_version on the raw backup
FormatCall ==
    /\ pure = NoCall
    /\ pure' = [fn |-> "get_backup_format_version",
                args |-> [backup |-> rawbak],
                out |-> get_backup_format_version(rawbak)]
    /\ UNCHANGED <<backupVars, fileVars, rawbak, migrated>>

MigrationResult(success, output_path, original_format, rows_migrated, error) ==
    [success |-> success, output_path |-> output_path,
     original_format |-> original_format, rows_migrated |-> rows_migrated,
     error |-> error]

\* lines 417-434: what the loop makes of one line that is not empty
MigratedLine(line) ==
    LET parts == Split(Strip(line), TAB)
    IN  IF Len(parts) = 3 THEN <<parts[1], parts[1], parts[2], parts[3]>>
        ELSE parts

\* lines 408-445: the loop over the lines of the backup
MigrationLoop(text) ==
    LET lines == SelectSeq(Split(Strip(UniversalNewlines(text)), NL),
                           LAMBDA line : Strip(line) # <<>>)
        parts == [i \in DOMAIN lines |-> Split(Strip(lines[i]), TAB)]
        kept == SelectSeq(lines, LAMBDA line : Len(Split(Strip(line), TAB)) \in {3, 4})
    IN  [rows_migrated |-> Len(SelectSeq(parts, LAMBDA q : Len(q) = 3)),
         skipped_rows |-> Len(SelectSeq(parts, LAMBDA q : Len(q) \notin {3, 4})),
         content |-> Flatten([i \in DOMAIN kept |->
                                 JoinFields(MigratedLine(kept[i]), TAB) \o <<NL>>])]

\* recovery.migrate_gpt_response_backup(backup_path). oserror: where the
\* operating system refuses, "open" or "write" of the output file, or "none"
MigrateCall(oserror) ==
    /\ pure = NoCall
    /\ \E format_info \in {get_backup_format_version(rawbak)} :
       \E loop \in {MigrationLoop(rawbak.text)} :
       LET return(result) ==
               pure' = [fn |-> "migrate_gpt_response_backup",
                        args |-> [backup |-> rawbak, output |-> migrated,
                                  oserror |-> oserror],
                        out |-> result]
       IN  IF ~rawbak.exists
           THEN /\ return(MigrationResult(FALSE, "None", "unknown", 0,
                                          "Backup file does not exist"))
                /\ UNCHANGED migrated
           ELSE IF format_info.error # "None"
           THEN /\ return(MigrationResult(FALSE, "None", format_info.version, 0,
                                          format_info.error))
                /\ UNCHANGED migrated
           ELSE IF format_info.version = "4-col"
           THEN /\ return(MigrationResult(TRUE, "backup_path", "4-col", 0, "None"))
                /\ UNCHANGED migrated
           ELSE IF format_info.version # "3-col"
           THEN /\ return(MigrationResult(FALSE, "None", format_info.version, 0,
                                          "Cannot migrate format"))
                /\ UNCHANGED migrated
           ELSE IF loop.skipped_rows > 0
           THEN /\ return(MigrationResult(FALSE, "None", format_info.version, 0,
                                          "Skipped rows with unexpected column counts"))
                /\ UNCHANGED migrated
           ELSE IF oserror = "open"
           THEN /\ return(MigrationResult(FALSE, "None", "3-col", 0,
                                          "File operation failed"))
                /\ UNCHANGED migrated
           ELSE IF oserror = "write"
           THEN /\ return(MigrationResult(FALSE, "None", "3-col", 0,
                                          "File operation failed"))
                /\ migrated' = File(<<>>, IF migrated.exists THEN migrated.mode
                                          ELSE DefaultMode)
           ELSE /\ return(MigrationResult(TRUE, "output_path", "3-col",
                                          loop.rows_migrated, "None"))
                /\ migrated' = File(loop.content,
                                    IF migrated.exists THEN migrated.mode
                                    ELSE DefaultMode)
    /\ UNCHANGED <<backupVars, fileVars, rawbak>>

\* the value csv.DictReader(file) gives a row for a column: the field under the
\* last column of that name, nothing (None or absent) where the row has none
DictValue(names, fields, column) ==
    LET at == {i \in 1..Len(names) : names[i] = column /\ i <= Len(fields)}
    IN  IF at = {} THEN <<>>
        ELSE fields[CHOOSE i \in at : \A j \in at : j <= i]

\* the rows csv.DictReader(file) yields, the columns found by their names
DictRows(t) ==
    LET names == Fieldnames(t)
        lines == DataLines(t)
    IN  [i \in 1..Len(lines) |->
            Row(DictValue(names, Split(lines[i], COMMA), <<"word">>),
                DictValue(names, Split(lines[i], COMMA), <<"translation">>),
                DictValue(names, Split(lines[i], COMMA), <<"example">>))]

\* recovery.migrate_vocabulary_backup(backup_path), the backup being extbak
MigrateVocabularyCall(oserror) ==
    /\ pure = NoCall
    /\ \E validation \in {validate_backup_parseable(extbak)} :
       LET rows == DictRows(extbak.text)
           mode == IF migrated.exists THEN migrated.mode ELSE DefaultMode
           return(result) ==
               pure' = [fn |-> "migrate_vocabulary_backup",
                        args |-> [backup |-> extbak, output |-> migrated,
                                  oserror |-> oserror],
                        out |-> result]
       IN  IF ~extbak.exists
           THEN /\ return(MigrationResult(FALSE, "None", "unknown", 0,
                                          "Backup file does not exist"))
                /\ UNCHANGED migrated
           ELSE IF ~validation.valid
           THEN /\ return(MigrationResult(FALSE, "None", "unknown", 0, validation.error))
                /\ UNCHANGED migrated
           ELSE IF oserror = "open"
           THEN /\ return(MigrationResult(FALSE, "None", "unknown", 0, "Migration failed"))
                /\ UNCHANGED migrated
           ELSE IF oserror = "write"
           THEN /\ return(MigrationResult(FALSE, "None", "unknown", 0, "Migration failed"))
                /\ migrated' = File(<<>>, mode)
           ELSE /\ return(MigrationResult(TRUE, "output_path", "3-col", Len(rows), "None"))
                /\ migrated' = File(Flatten(RenderCsv(rows)), mode)
    /\ UNCHANGED <<backupVars, fileVars, rawbak>>

\* a count of the rows that takes a translation of white space for a translation
StatsUntrimmed(f) ==
    LET rows == SelectSeq(DictRows(f.text), LAMBDA r : Strip(r.word) # <<>>)
        done == SelectSeq(rows, LAMBDA r : r.translation # <<>> /\ r.example # <<>>)
    IN  IF ~f.exists THEN [total |-> 0, translated |-> 0, pending |-> 0]
        ELSE [total |-> Len(rows), translated |-> Len(done),
              pending |-> Len(rows) - Len(done)]

\* csv_handler.calculate_vocabulary_stats
calculate_vocabulary_stats(f) ==
    LET rows == SelectSeq(DictRows(f.text), LAMBDA r : Strip(r.word) # <<>>)
        done == SelectSeq(rows, LAMBDA r : /\ Strip(r.translation) # <<>>
                                           /\ Strip(r.example) # <<>>)
    IN  IF ~f.exists THEN [total |-> 0, translated |-> 0, pending |-> 0]
        ELSE [total |-> Len(rows), translated |-> Len(done),
              pending |-> Len(rows) - Len(done)]

\* a call of calculate_vocabulary_stats on the vocabulary file
StatsCall ==
    /\ pure = NoCall
    /\ pure' = [fn |-> "calculate_vocabulary_stats",
                args |-> [file |-> live],
                out |-> calculate_vocabulary_stats(live)]
    /\ UNCHANGED <<backupVars, fileVars, rawbak, migrated>>

\* a call of get_words_to_translate on the vocabulary file: the header is
\* inserted where it is missing, then the rows are read
WordsCall ==
    /\ pure = NoCall
    /\ pc = "idle"
    /\ live.exists
    /\ \E text \in {IF StartsWithHeader(live.text) THEN live.text
                    ELSE Flatten(WithHeaderChunks(live.text))} :
       \E words \in {get_words_to_translate(TableRows(text))} :
          /\ live' = [live EXCEPT !.text = text]
          /\ pure' = [fn |-> "get_words_to_translate",
                      args |-> [file |-> live],
                      out |-> [raised |-> IF words = <<>> THEN "AllWordsTranslatedError"
                                          ELSE "None",
                               words |-> words]]
    /\ UNCHANGED <<backupVars, tmp, extbak, prebak, pc, op, res, undo, restores,
                   rawbak, migrated>>

\* the most fields a line of a raw backup has
MaxFields == 5

\* the fields of the first and of the second line of a raw backup, by position
LineAtoms ==
    << <<"w1", "t1", "e1", "x1", "y1", "z1">>, <<"w2", "t2", "e2", "x2", "y2", "z2">> >>

\* the lines of a raw backup: one to MaxFields fields, each empty or not
RawLines(k) ==
    UNION {{JoinFields([i \in 1..n |-> IF i \in filled THEN <<LineAtoms[k][i]>> ELSE <<>>],
                       TAB) : filled \in SUBSET (1..n)} : n \in 1..MaxFields}

\* the texts of a raw backup: one or two lines, the last with or without its end
RawTexts ==
    {<<BadByte>>, <<"w1", TAB, "t1", TAB, BadByte, NL>>}
        \cup {first \o end : first \in RawLines(1), end \in {<<>>, <<NL>>}}
        \cup {first \o sep \o second \o end :
                 first \in RawLines(1), second \in RawLines(2),
                 sep \in {<<NL>>, <<CR, NL>>}, end \in {<<>>, <<NL>>}}

\* the words a call of detect_word_mismatches is given, one or two of them
DetectWords == { <<"a">>, <<"A">>, <<"b">> }

DetectRequests ==
    {<<w>> : w \in DetectWords} \cup {<<p[1], p[2]>> : p \in DetectWords \X DetectWords}

\* the entries of the answers it is given: requested and other keys, the
\* recognized word a word, empty, blank, or None
DetectEntries ==
    {ResponseEntry(k, r, <<"t">>) :
        k \in {<<"a">>, <<"A">>, <<"z">>, <<"y">>},
        r \in {<<"a">>, <<"A">>, <<"z">>, <<>>, <<SP>>, None}}

DetectResponses ==
    {<<>>} \cup {<<e>> : e \in DetectEntries}
        \cup {<<p[1], p[2]>> : p \in {q \in DetectEntries \X DetectEntries :
                                         q[1].key # q[2].key}}

\* the rows of the vocabulary files that are counted: the word, the translation
\* and the example filled, empty or of white space
InspectRows ==
    {Row(w, t, e) : w \in {<<"a">>, <<SP>>},
                    t \in {<<>>, <<"t">>, <<SP>>},
                    e \in {<<>>, <<"x">>, <<SP>>}}

\* the vocabulary files that are counted: none, or up to two rows, with the
\* header or, as add leaves a new file, without it
InspectFiles ==
    LET bodies == {<<>>} \cup {RowLine(r) : r \in InspectRows}
                      \cup {RowLine(r1) \o RowLine(r2) : r1, r2 \in InspectRows}
    IN  {Absent} \cup {File(b, DefaultMode) : b \in bodies}
                 \cup {File(HeaderLine \o b, DefaultMode) : b \in bodies}

\* the vocabulary backups that are migrated
VocabularyBackups == {Absent} \cup {File(t, DefaultMode) : t \in CsvTexts \cup OtherTexts}

\* no operation on the vocabulary file is under way
FileIdle ==
    /\ pure = NoCall
    /\ rawbak = Absent
    /\ migrated = Absent
    /\ tmp = Absent
    /\ prebak = <<>>
    /\ pc = "idle"
    /\ op = NoOp
    /\ res = NoRes
    /\ undo = NoUndo
    /\ restores = 0

(***************************************************************************)
(* The backup directory under snapshot calls                               *)
(***************************************************************************)
BackupIdle ==
    /\ bdir = {}
    /\ bcalls = [s \in AllStems |-> 0]
    /\ bpre = [s \in AllStems |-> 0]

\* the directory holds k backups of one stem, made earlier
InitBackup ==
    \E s \in AllStems, k \in 0..MaxPreexisting :
        /\ FileIdle
        /\ live = Absent
        /\ extbak = Absent
        /\ bdir = {NewBackup(s, i) : i \in 1..k}
        /\ bpre = [x \in AllStems |-> IF x = s THEN k ELSE 0]
        /\ bcalls = [x \in AllStems |-> 0]

BackupFileCall(stem) ==
    /\ bcalls[stem] < MaxFileSnapshots
    /\ bdir' = backup_file(bdir, stem, bpre[stem] + bcalls[stem] + 1)
    /\ bcalls' = [bcalls EXCEPT ![stem] = @ + 1]
    /\ UNCHANGED bpre
    /\ UNCHANGED fileVars
    /\ UNCHANGED pureVars

BackupContentCall ==
    /\ bcalls[RawStem] < MaxRawSnapshots
    /\ bdir' = backup_content(bdir, bpre[RawStem] + bcalls[RawStem] + 1)
    /\ bcalls' = [bcalls EXCEPT ![RawStem] = @ + 1]
    /\ UNCHANGED bpre
    /\ UNCHANGED fileVars
    /\ UNCHANGED pureVars

NextBackup ==
    \/ \E stem \in FileStems : BackupFileCall(stem)
    \/ BackupContentCall

SpecBackup == InitBackup /\ [][NextBackup]_vars

Cap(stem) == IF stem = RawStem THEN BackupContentCap ELSE BackupFileCap

\* C7: starting from a directory with no backup of a stem, after n snapshot
\* calls for the stem the directory holds exactly min(n, cap) backups of it
\* (cap 10 for files, 15 for gpt_request), and they are the most recently
\* created ones: the timestamps n - min(n, cap) + 1 .. n.
C7_Retention ==
    \A stem \in AllStems :
        bpre[stem] = 0 =>
            LET n == bcalls[stem]
                kept == Glob(bdir, stem)
            IN  /\ Cardinality(kept) = Min(n, Cap(stem))
                /\ {f.ts : f \in kept} = (n - Min(n, Cap(stem)) + 1)..n

\* both caps have been exceeded from an empty directory
C7_Witness ==
    /\ \A stem \in AllStems : bpre[stem] = 0
    /\ bcalls["vocab_list_en-fr"] = BackupFileCap + 2
    /\ bcalls[RawStem] = BackupContentCap + 2
    /\ Cardinality(Glob(bdir, "vocab_list_en-fr")) = BackupFileCap
    /\ Cardinality(Glob(bdir, RawStem)) = BackupContentCap

\* C8: after every snapshot call the stem has at most cap backups, whatever
\* the directory held before the call.
C8_AtMostCap ==
    \A stem \in AllStems :
        bcalls[stem] >= 1 => Cardinality(Glob(bdir, stem)) <= Cap(stem)

(***************************************************************************)
(* The vocabulary file under restores                                      *)
(***************************************************************************)
InitRestore ==
    /\ BackupIdle
    /\ FileIdle
    /\ live \in LiveChoices
    /\ extbak \in RestoreBackups

NextRestore ==
    \/ \E path \in RestorePaths : RestoreCall(path)
    \/ RestoreSnapshot
    \/ RestoreSnapshotFail
    \/ RestoreCommitOpen
    \/ RestoreWrite
    \/ RestoreCommitFail
    \/ RestoreCommitDone
    \/ NextCommand

SpecRestore == InitRestore /\ [][NextRestore]_vars

(***************************************************************************)
(* The vocabulary file under every operation that writes it, and kills     *)
(***************************************************************************)
InitLive ==
    /\ BackupIdle
    /\ FileIdle
    /\ live \in LiveChoices
    /\ extbak \in LiveBackups

NextLive ==
    \/ \E word \in AddWords : AppendCall(word)
    \/ AppendWrite
    \/ EnsureHeaderCall
    \/ \E entries \in MergedEntries : TranslateWriteCall(entries)
    \/ AwMkstemp
    \/ AwMkstempFail
    \/ AwWrite
    \/ AwWriterReturn
    \/ AwWriterRaise
    \/ AwChmod
    \/ AwChmodFail
    \/ AwReplace
    \/ AwReplaceFail
    \/ AwExcept
    \/ AwExceptUnlinkFail
    \/ \E path \in RestorePaths : RestoreCall(path)
    \/ RestoreSnapshot
    \/ RestoreSnapshotFail
    \/ RestoreCommitOpen
    \/ RestoreWrite
    \/ RestoreCommitFail
    \/ RestoreCommitDone
    \/ NextCommand
    \/ Kill

SpecLive == InitLive /\ [][NextLive]_vars

\* the complete content the running operation writes
NewText(o) ==
    IF o.kind = "append_word" THEN o.old.text \o Flatten(o.chunks)
    ELSE Flatten(o.chunks)

\* the vocabulary file is as the operation found it, or holds all it writes
OldOrNew == live = op.old \/ (live.exists /\ live.text = NewText(op))

C2_OldOrNew == op.kind \in AtomicKinds => OldOrNew

C2_Witness ==
    /\ op.kind \in AtomicKinds
    /\ pc = "killed"
    /\ tmp.exists
    /\ 0 < op.written
    /\ op.written < Len(op.chunks)
    /\ live = op.old

\* C3: a kill at any point of an operation that modifies the vocabulary file
\* (append, header insertion, translate write, restore) leaves the file with
\* its complete old content or its complete new content
C3_KillLeavesOldOrNew == (pc = "killed" /\ op.old.exists) => OldOrNew

\* the pre-restore backup the running restore made holds the file it found
SnapshotHoldsPrior ==
    /\ op.pre > op.precount
    /\ op.pre <= Len(prebak)
    /\ prebak[op.pre] = op.old.text

\* C4: a restore onto an existing vocabulary file does not modify the file
\* before a pre-restore backup holds its prior content; when the snapshot
\* fails the restore returns a failure with the file untouched; a successful
\* restore returns the path of that snapshot
C4_SnapshotBeforeCommit ==
    (op.kind = "restore" /\ op.old.exists) =>
        /\ live # op.old => SnapshotHoldsPrior
        /\ op.fail = "snapshot" =>
              (pc = "returned" /\ ~res.success /\ res.pre = 0 /\ live = op.old)
        /\ (pc = "returned" /\ res.success) =>
              (res.pre = op.pre /\ SnapshotHoldsPrior)

C4_Witness ==
    /\ op.kind = "restore"
    /\ op.old.exists
    /\ pc = "returned"
    /\ res.success
    /\ live.text # op.old.text
    /\ res.pre = op.pre
    /\ SnapshotHoldsPrior

\* the lines of a backup taken as they stand in the file
FileLines(t) == NonBlank(Split(UniversalNewlines(t), NL))

\* a CSV whose header has the three columns, or a headerless file whose every
\* non-blank line has 3 or 4 tab-separated fields
AcceptableBackup(b) ==
    /\ b.exists
    /\ ~Undecodable(b.text)
    /\ \/ Range(CSV_FIELDNAMES) \subseteq Range(Fieldnames(b.text))
       \/ \A i \in 1..Len(FileLines(b.text)) :
              Len(Split(FileLines(b.text)[i], TAB)) \in {3, 4}

\* C5: a restore from a backup that is missing, or is neither such a CSV nor
\* such a headerless file, returns a failure with an error, leaves the
\* vocabulary file unchanged and creates no pre-restore backup
C5_InvalidBackupRejected ==
    (op.kind = "restore" /\ ~AcceptableBackup(BackupAt(op.path))) =>
        /\ pc = "returned"
        /\ ~res.success
        /\ res.error # "none"
        /\ live = op.old
        /\ Len(prebak) = op.precount

\* C6: after a successful restore onto an existing file of content C, a
\* restore from the returned pre-restore backup succeeds and leaves the
\* vocabulary file with content C
C6_UndoRestoresPrior ==
    (op.kind = "restore" /\ op.isundo /\ op.fail = "none" /\ pc = "returned") =>
        /\ res.success
        /\ live.exists
        /\ live.text = op.prior.text

(***************************************************************************)
(* The vocabulary of a pair: words added to an empty file, then translated *)
(***************************************************************************)
\* the vocabulary file of a pair before the commands: empty, as setup_files
\* creates it, or with the row a translate run wrote from an answer that gave
\* a translation and an empty example
VocabFiles ==
    { File(<<>>, DefaultMode),
      File(Flatten(RenderCsv(<<Row(<<"a">>, <<"t">>, <<>>)>>)), DefaultMode) }

InitVocab ==
    /\ BackupIdle
    /\ FileIdle
    /\ live \in VocabFiles
    /\ extbak = Absent

NextVocab ==
    \/ \E word \in VocabWords, confirm \in BOOLEAN : AddCommand(word, confirm)
    \/ AppendWrite
    \/ AddDone
    \/ \E new_entries \in Responses, failure \in {"none", "service", "write"} :
          TranslateRun(new_entries, failure)

SpecVocab == InitVocab /\ [][NextVocab]_vars

\* the words of a table are pairwise different
UniqueWords(rows) ==
    \A i, j \in 1..Len(rows) : i # j => rows[i].word # rows[j].word

\* the word is in the vocabulary file
InFile(word) == \E i \in 1..Len(TableRows(live.text)) : TableRows(live.text)[i].word = word

\* C9: a translate run deletes no entry: every row of the file before the run
\* is in the file after it under its word or under the correction the user
\* accepted for it, and the file has at least as many rows as before
C9_NoRowDeleted ==
    (op.kind = "translate" /\ pc = "returned" /\ UniqueWords(op.rows)) =>
        /\ Len(TableRows(live.text)) >= Len(op.rows)
        /\ \A i \in 1..Len(op.rows) :
              \/ InFile(op.rows[i].word)
              \/ \E c \in op.accepted : c[1] = op.rows[i].word /\ InFile(c[2])

\* C10: after any sequence of add commands on an empty vocabulary file, no
\* two rows of the file have the same word
C10_WordIsUniqueKey ==
    (op.kind \in {"none", "add", "append_word"} /\ pc \in {"idle", "returned"}) =>
        UniqueWords(FileRows(live.text))

\* the words the user's accepted corrections put in place of others
AcceptedWords == {c[2] : c \in op.accepted}

\* no accepted correction names a word the file already held
NoCollision == \A i \in 1..Len(op.rows) : op.rows[i].word \notin AcceptedWords

\* C11: the rows after a translate run are the rows before it, each at its
\* position, the word alone replaced where a correction for it was accepted
C11_OrderPreserved ==
    (op.kind = "translate" /\ pc = "returned" /\ UniqueWords(op.rows) /\ NoCollision) =>
        /\ Len(TableRows(live.text)) = Len(op.rows)
        /\ \A i \in 1..Len(op.rows) :
              \/ TableRows(live.text)[i].word = op.rows[i].word
              \/ <<op.rows[i].word, TableRows(live.text)[i].word>> \in op.accepted

\* what the claim calls invalid: None, no dict, empty, or holding a value that
\* is no dict with all of word, translation and example
NotWritable(entries) ==
    \/ entries.type = "NoneType"
    \/ entries.type # "dict"
    \/ entries.items = <<>>
    \/ \E i \in 1..Len(entries.items) :
          \/ entries.items[i].val.type # "dict"
          \/ \E k \in Range(CSV_FIELDNAMES) : k \notin entries.items[i].val.keys

\* C12: the merged entries are validated before the atomic writer is called:
\* the validation fails exactly for entries that are None, no dict, empty or
\* hold a value that is no complete row; ValidationError is then raised, no
\* temporary file is ever made and the vocabulary file is as it was
C12_ValidatedBeforeWrite ==
    op.kind = "translate_write" =>
        /\ (op.fail = "ValidationError") <=> NotWritable(op.entries)
        /\ op.fail = "ValidationError" =>
              /\ pc = "raised"
              /\ live = op.old
              /\ ~tmp.exists
              /\ op.written = 0

C12_Witness ==
    /\ op.kind = "translate_write"
    /\ pc = "raised"
    /\ op.fail = "ValidationError"
    /\ op.entries.type = "dict"
    /\ op.entries.items # <<>>
    /\ live = op.old
    /\ live.text # <<>>

\* a value a spreadsheet takes for a formula: it begins with =, +, @, a tab or
\* a line break, or with a hyphen before a digit or an operator
FormulaLike(v) ==
    /\ v # <<>>
    /\ \/ Head(v) \in {"=", "+", "@", TAB, CR, NL}
       \/ Head(v) = "-" /\ Len(v) > 1 /\ v[2] \in Digits \cup {"=", "+", "-", "@"}

\* C13: no word, translation or example that an add command or a translate run
\* wrote into the vocabulary file begins like a formula
C13_WrittenValuesSanitized ==
    pc \in {"idle", "returned"} =>
        \A i \in 1..Len(FileRows(live.text)) :
            /\ ~FormulaLike(FileRows(live.text)[i].word)
            /\ ~FormulaLike(FileRows(live.text)[i].translation)
            /\ ~FormulaLike(FileRows(live.text)[i].example)

(***************************************************************************)
(* detect_word_mismatches on requests and answers                          *)
(***************************************************************************)
InitDetect ==
    /\ BackupIdle
    /\ FileIdle
    /\ live = Absent
    /\ extbak = Absent

NextDetect ==
    \E original_words \in DetectRequests, gpt_response \in DetectResponses :
        DetectCall(original_words, gpt_response)

SpecDetect == InitDetect /\ [][NextDetect]_vars

\* the call at hand, by its parts
Requested == pure.args.original_words
Answer == pure.args.gpt_response
AnswerKeys == {Answer[i].key : i \in DOMAIN Answer}
RecognizedFor(w) == Answer[CHOOSE i \in DOMAIN Answer : Answer[i].key = w].val.recognized_word
BlankValue(v) == v = None \/ \A i \in 1..Len(v) : v[i] \in Whitespace

\* the mismatches reported, as pairs of word and candidates
Reported ==
    [i \in 1..Len(pure.out.mismatches) |->
        <<pure.out.mismatches[i].word, pure.out.mismatches[i].corrections>>]

\* the requested words that are in the answer with a recognized word
Recognised(w) == w \in AnswerKeys /\ ~BlankValue(RecognizedFor(w))

C16_AbsentWordCandidates ==
    pure.fn = "detect_word_mismatches" =>
        \A k \in 1..Len(Requested) :
            LET w == Requested[k]
                others == AnswerKeys \ Range(Requested)
            IN  w \notin AnswerKeys =>
                    IF others = {}
                    THEN /\ w \in Range(pure.out.missing_words)
                         /\ \A i \in 1..Len(Reported) : Reported[i][1] # w
                    ELSE /\ w \notin Range(pure.out.missing_words)
                         /\ \E i \in 1..Len(Reported) : Reported[i] = <<w, others>>

(***************************************************************************)
(* The corrections of a translate run                                      *)
(***************************************************************************)
\* a translate run has written the file
Translated == op.kind = "translate" /\ pc = "returned"

\* the mismatches with one candidate that the user accepted, as <<w, r>>
AcceptedSingles ==
    {<<op.mismatches[i].word, CHOOSE c \in op.mismatches[i].corrections : TRUE>> :
        i \in {j \in DOMAIN op.mismatches :
                  /\ Cardinality(op.mismatches[j].corrections) = 1
                  /\ op.answers[j] # <<>>}}

\* the row of the file has the word r and what the answer gave for w
HoldsAnswerFor(row, w, r) ==
    /\ row.word = r
    /\ w \in DictKeys(op.response) =>
          /\ row.translation = sanitize_csv_value(DictGet(op.response, w).translation)
          /\ row.example = sanitize_csv_value(DictGet(op.response, w).example)

\* C17: after the user accepted a single-candidate correction of w to r, the
\* written file has a row with the word r and the sanitised translation and
\* example of the answer for w, and no row with the word w
C17_AcceptedCorrectionWritten ==
    Translated =>
        \A c \in AcceptedSingles :
            /\ \E i \in DOMAIN TableRows(live.text) :
                  HoldsAnswerFor(TableRows(live.text)[i], c[1], c[2])
            /\ ~InFile(c[1])

\* the words the run left alone: a correction declined, a prompt answered with
\* nothing or with no candidate, or no answer for the word
LeftAlone == op.skip \cup Range(op.missing)

\* C18: the row of a word whose correction was declined or skipped, or that
\* was classified missing, is written back as it was before the run: the same
\* word, translation and example
C18_UnresolvedRowsUnchanged ==
    Translated =>
        \A i \in DOMAIN op.rows :
            op.rows[i].word \in LeftAlone =>
                \E j \in DOMAIN TableRows(live.text) :
                    TableRows(live.text)[j] = op.rows[i]

(***************************************************************************)
(* The migration of a raw backup to four columns                           *)
(***************************************************************************)
InitMigrate ==
    /\ BackupIdle
    /\ pure = NoCall
    /\ tmp = Absent
    /\ prebak = <<>>
    /\ pc = "idle"
    /\ op = NoOp
    /\ res = NoRes
    /\ undo = NoUndo
    /\ restores = 0
    /\ live = Absent
    /\ extbak = Absent
    /\ rawbak \in {Absent} \cup {File(text, DefaultMode) : text \in RawTexts}
    /\ migrated \in {Absent, File(<<"old">>, DefaultMode)}

NextMigrate ==
    \/ \E oserror \in {"none", "open", "write"} : MigrateCall(oserror)
    \/ FormatCall

SpecMigrate == InitMigrate /\ [][NextMigrate]_vars

\* the call has returned and the operating system refused nothing
Migrated ==
    /\ pure.fn = "migrate_gpt_response_backup"
    /\ pure.args.backup.exists
    /\ pure.args.oserror = "none"

\* the lines of the backup that are not blank, each as its tab-separated fields
BackupLines ==
    LET lines == Split(UniversalNewlines(pure.args.backup.text), NL)
        nonblank == SelectSeq(lines, LAMBDA l : \E i \in 1..Len(l) : l[i] \notin Whitespace)
    IN  [i \in DOMAIN nonblank |-> Split(nonblank[i], TAB)]

AllOfWidth(n) == BackupLines # <<>> /\ \A i \in DOMAIN BackupLines : Len(BackupLines[i]) = n

\* C19: a raw backup whose non-blank lines all have three fields is migrated
\* to a new file of the lines (word, word, translation, example) in order,
\* rows_migrated the number of lines, the source unchanged; a backup whose
\* lines all have four fields gives success with the path of the backup, no
\* row migrated and no file written
C19_MigratesWellFormed ==
    Migrated =>
        /\ AllOfWidth(3) =>
              /\ pure.out.success
              /\ pure.out.output_path = "output_path"
              /\ pure.out.rows_migrated = Len(BackupLines)
              /\ migrated.exists
              /\ migrated.text =
                     Flatten([i \in DOMAIN BackupLines |->
                                 JoinFields(<<BackupLines[i][1], BackupLines[i][1],
                                              BackupLines[i][2], BackupLines[i][3]>>, TAB)
                                     \o <<NL>>])
              /\ rawbak = pure.args.backup
        /\ AllOfWidth(4) =>
              /\ pure.out.success
              /\ pure.out.output_path = "backup_path"
              /\ pure.out.rows_migrated = 0
              /\ migrated = pure.args.output
              /\ rawbak = pure.args.backup

\* a line that is not of three or four fields, or lines of three and of four
Malformed ==
    \/ \E i \in DOMAIN BackupLines : Len(BackupLines[i]) \notin {3, 4}
    \/ \E i, j \in DOMAIN BackupLines : Len(BackupLines[i]) # Len(BackupLines[j])

\* C20: a backup with a non-blank line that is not of three or four fields,
\* or with lines of three and of four fields, is not migrated in part: the
\* call fails with no output path and no row migrated, and the output file is
\* neither made nor changed
C20_NoPartialMigration ==
    (pure.fn = "migrate_gpt_response_backup" /\ pure.args.backup.exists /\ Malformed) =>
        /\ ~pure.out.success
        /\ pure.out.output_path = "None"
        /\ pure.out.rows_migrated = 0
        /\ migrated = pure.args.output
        /\ rawbak = pure.args.backup

C20_Witness ==
    /\ pure.fn = "migrate_gpt_response_backup"
    /\ pure.args.backup.exists
    /\ Len(BackupLines) = 2
    /\ Len(BackupLines[1]) = 3
    /\ Len(BackupLines[2]) = 4
    /\ pure.args.output.exists
    /\ migrated = pure.args.output
    /\ ~pure.out.success

(***************************************************************************)
(* The format of a raw backup                                              *)
(***************************************************************************)
\* get_backup_format_version has returned for a backup that exists
Detected == pure.fn = "get_backup_format_version" /\ pure.args.backup.exists

Unreadable == Undecodable(pure.args.backup.text)

Widths == {Len(BackupLines[i]) : i \in DOMAIN BackupLines}

\* C21, as claimed: the version is 3-col when every non-blank line has three
\* fields, 4-col when every one has four, mixed when the counts vary between
\* the lines, unknown when the file is empty or unreadable
C21_VersionAsClaimed ==
    Detected =>
        IF Unreadable \/ BackupLines = <<>> THEN pure.out.version = "unknown"
        ELSE /\ Widths = {3} => pure.out.version = "3-col"
             /\ Widths = {4} => pure.out.version = "4-col"
             /\ Cardinality(Widths) > 1 => pure.out.version = "mixed"

\* C21, amended: the version is mixed when the lines have three and four
\* fields and no other count, and unknown when the file is empty or
\* unreadable or a non-blank line has neither three nor four fields
C21_VersionDetected ==
    Detected =>
        IF Unreadable \/ BackupLines = <<>> \/ Widths \ {3, 4} # {}
        THEN pure.out.version = "unknown" /\ pure.out.error # "None"
        ELSE /\ Widths = {3} => pure.out.version = "3-col" /\ pure.out.error = "None"
             /\ Widths = {4} => pure.out.version = "4-col" /\ pure.out.error = "None"
             /\ Widths = {3, 4} => pure.out.version = "mixed" /\ pure.out.error # "None"

C21_Witness ==
    /\ Detected
    /\ ~Unreadable
    /\ Widths = {3, 5}
    /\ pure.out.version = "unknown"

(***************************************************************************)
(* Vocabulary files and backups inspected                                  *)
(***************************************************************************)
InitInspect ==
    /\ BackupIdle
    /\ pure = NoCall
    /\ tmp = Absent
    /\ prebak = <<>>
    /\ pc = "idle"
    /\ op = NoOp
    /\ res = NoRes
    /\ undo = NoUndo
    /\ restores = 0
    /\ rawbak = Absent
    /\ \/ live \in InspectFiles /\ extbak = Absent /\ migrated = Absent
       \/ /\ live = Absent
          /\ extbak \in VocabularyBackups
          /\ migrated \in {Absent, File(<<"old">>, DefaultMode)}

NextInspect ==
    \/ \E oserror \in {"none", "open", "write"} : MigrateVocabularyCall(oserror)
    \/ StatsCall
    \/ WordsCall

SpecInspect == InitInspect /\ [][NextInspect]_vars

\* C22: migrate_vocabulary_backup succeeds on every vocabulary backup that
\* exists and can be read (here: one whose first line names the word column),
\* with one row of word, translation, example per row of the backup, a missing
\* field empty, and fails when the backup does not exist or cannot be read
C22_MigratesEveryReadableBackup ==
    (pure.fn = "migrate_vocabulary_backup" /\ pure.args.oserror = "none") =>
        LET backup == pure.args.backup
        IN  /\ (~backup.exists \/ Undecodable(backup.text)) => ~pure.out.success
            /\ (/\ backup.exists
                /\ ~Undecodable(backup.text)
                /\ <<"word">> \in Range(Fieldnames(backup.text))) =>
                   /\ pure.out.success
                   /\ pure.out.rows_migrated = Len(DataLines(backup.text))
                   /\ migrated.exists
                   /\ StartsWithHeader(migrated.text)
                   /\ Len(TableRows(migrated.text)) = Len(DataLines(backup.text))

\* a value is blank: empty, or of white space alone
Blank(v) == \A i \in 1..Len(v) : v[i] \in Whitespace

\* the words of the rows that want a translation or an example, in file order
PendingWords(rows) ==
    LET pending == SelectSeq(rows, LAMBDA r : Blank(r.translation) \/ Blank(r.example))
    IN  [i \in DOMAIN pending |-> pending[i].word]

\* C23: get_words_to_translate returns, in file order, the words of the rows
\* whose translation or example is blank after trimming, raises
\* AllWordsTranslatedError exactly when there is none, and returns as many
\* words as calculate_vocabulary_stats counts pending for the same file
C23_PendingWords ==
    pure.fn = "get_words_to_translate" =>
        /\ pure.out.words = PendingWords(TableRows(live.text))
        /\ pure.out.raised = "AllWordsTranslatedError"
              <=> PendingWords(TableRows(live.text)) = <<>>
        /\ Len(pure.out.words) = calculate_vocabulary_stats(pure.args.file).pending

\* the rows of the file that have a word, and those of them that are complete
RowsWithWord ==
    LET rows == DictRows(pure.args.file.text)
    IN  {i \in DOMAIN rows : ~Blank(rows[i].word)}

CompleteRows ==
    LET rows == DictRows(pure.args.file.text)
    IN  {i \in RowsWithWord : ~Blank(rows[i].translation) /\ ~Blank(rows[i].example)}

\* C24: calculate_vocabulary_stats returns as total the number of data rows
\* with a non-blank word, as translated the number of those with a non-blank
\* translation and a non-blank example, as pending their difference, with
\* 0 <= translated <= total, and all zeros for a file that does not exist
C24_Stats ==
    pure.fn = "calculate_vocabulary_stats" =>
        IF pure.args.file.exists
        THEN /\ pure.out.total = Cardinality(RowsWithWord)
             /\ pure.out.translated = Cardinality(CompleteRows)
             /\ pure.out.pending = pure.out.total - pure.out.translated
             /\ 0 <= pure.out.translated
             /\ pure.out.translated <= pure.out.total
        ELSE pure.out = [total |-> 0, translated |-> 0, pending |-> 0]

C24_Witness ==
    /\ pure.fn = "calculate_vocabulary_stats"
    /\ pure.args.file.exists
    /\ \E i \in RowsWithWord : DictRows(pure.args.file.text)[i].translation = <<SP>>
    /\ pure.out = [total |-> 2, translated |-> 1, pending |-> 1]

(***************************************************************************)
(* The header line                                                         *)
(***************************************************************************)
\* ensure_csv_has_fieldnames has returned
HeaderEnsured == op.kind = "ensure_header" /\ pc = "returned"

\* C25: ensure_csv_has_fieldnames leaves a file that a second application does
\* not change (it starts with the header line, and a file that starts with
\* the header line is left as it is), and a file whose first line is not the
\* header becomes the header line followed by its original content
C25_HeaderInsertedOnce ==
    HeaderEnsured =>
        /\ StartsWithHeader(live.text)
        /\ StartsWithHeader(op.old.text) => live = op.old
        /\ ~StartsWithHeader(op.old.text) => live.text = HeaderLine \o op.old.text

(***************************************************************************)
(* The outcome of a restore                                                *)
(***************************************************************************)
\* C26: when the commit of a restore fails after the pre-restore backup was
\* made, the restore returns a failure with the error of the commit and no
\* restored path, the pre-restore backup still holds the prior content of the
\* vocabulary file, and its path is returned
C26_FailedCommitKeepsSnapshot ==
    (op.kind = "restore" /\ op.fail = "commit" /\ op.old.exists) =>
        /\ pc = "returned"
        /\ ~res.success
        /\ ~res.restored
        /\ res.error \in {"Failed to migrate headerless backup",
                          "Failed to restore from backup"}
        /\ res.pre = op.pre
        /\ SnapshotHoldsPrior

C26_Witness ==
    /\ op.kind = "restore"
    /\ op.fail = "commit"
    /\ op.old.exists
    /\ op.written >= 1
    /\ live # op.old
    /\ pc = "returned"
    /\ res.pre = Len(prebak)
    /\ prebak[res.pre] = op.old.text

\* the row a headerless line stands for: a line of four fields gives the
\* recognized word, the translation and the example, a line of three its fields
LineAsRow(line) ==
    LET parts == Split(line, TAB)
    IN  IF Len(parts) = 4 THEN Row(parts[2], parts[3], parts[4])
        ELSE Row(parts[1], parts[2], parts[3])

\* C27: after a successful restore the vocabulary file is the backup byte for
\* byte when the backup is a CSV whose header has word, translation and
\* example; when it is a headerless file of lines of three or four tab-separated
\* fields, it is the header and one row per non-blank line, in order
C27_RestoredContent ==
    (op.kind = "restore" /\ pc = "returned" /\ res.success) =>
        LET b == BackupAt(op.path)
            lines == FileLines(b.text)
        IN  IF Range(CSV_FIELDNAMES) \subseteq Range(Fieldnames(b.text))
            THEN live.text = b.text
            ELSE (\A i \in DOMAIN lines : Len(Split(lines[i], TAB)) \in {3, 4}) =>
                     live.text = Flatten(RenderCsv([i \in DOMAIN lines |->
                                                       LineAsRow(lines[i])]))

(***************************************************************************)
(* The snapshots and the progress of a translate run                       *)
(***************************************************************************)
\* a translate run has ended, with an error or without
TranslateEnded == op.kind = "translate" /\ pc \in {"raised", "returned"}

\* C28: a translate run snapshots the vocabulary file as it found it before
\* the request to the language model, and a second time only once the merged
\* table is in the file: a run that ends in an error (no pending word, the
\* request, the validation or the write failing) has made one snapshot, of the
\* content before the run, and none of a content that was not committed
C28_SnapshotsAroundCommit ==
    TranslateEnded =>
        /\ Cardinality(Glob(bdir, VocabStem)) = Len(op.snaps)
        /\ op.snaps[1] = op.old.text
        /\ pc = "raised" => Len(op.snaps) = 1
        /\ pc = "returned" => Len(op.snaps) = 2 /\ op.snaps[2] = live.text

C28_Witness ==
    /\ TranslateEnded
    /\ pc = "raised"
    /\ op.fail = "ServiceError"
    /\ ~StartsWithHeader(op.old.text)
    /\ live.text # op.old.text
    /\ op.snaps = <<op.old.text>>
    /\ Cardinality(Glob(bdir, VocabStem)) = 1
    /\ Glob(bdir, RawStem) = {}

\* the answer holds, under the word, an entry that recognizes the word and
\* gives a translation and an example
AnsweredInFull(word) ==
    /\ word \in DictKeys(op.response)
    /\ DictGet(op.response, word).recognized_word = word
    /\ DictGet(op.response, word).translation # <<>>
    /\ DictGet(op.response, word).example # <<>>

\* C29: a translate run that completes without error on an answer that holds,
\* for every pending word, an entry under the word that recognizes it and
\* gives a translation and an example, leaves no word pending
C29_TranslateRunProgress ==
    (/\ op.kind = "translate"
     /\ pc = "returned"
     /\ \A i \in 1..Len(get_words_to_translate(op.rows)) :
           AnsweredInFull(get_words_to_translate(op.rows)[i]))
        => get_words_to_translate(TableRows(live.text)) = <<>>

(***************************************************************************)
(* utils: the files and the backup directory of a language pair            *)
(*                                                                         *)
(* A language name is a sequence of characters; a path below the data      *)
(* directory is the sequence of the characters of its relative name.       *)
(***************************************************************************)
\* string.ascii_letters + string.digits + "_-", as far as the names use them
ALLOWED_CHARS == {"a", "A", "b", "1", "_", "-"}

\* the longest language name validate_language_name lets through
MaxNameLength == 64

\* str.casefold on the characters of the names
casefold(name) == [i \in 1..Len(name) |-> IF name[i] = "A" THEN "a" ELSE name[i]]

\* the names validate_language_name refuses with ValueError
InvalidName(name) ==
    \/ name = <<>>
    \/ Len(name) > MaxNameLength
    \/ \E i \in 1..Len(name) : name[i] \notin ALLOWED_CHARS

\* utils.validate_language_name, for a name it lets through
validate_language_name(name) == casefold(name)

\* f"{language_to_learn}-{mother_tongue}" of the validated names
PairName(language_to_learn, mother_tongue) ==
    validate_language_name(language_to_learn) \o <<"-">>
        \o validate_language_name(mother_tongue)

\* utils.get_pair_file_paths: the vocabulary file and the deck file
get_pair_file_paths(language_to_learn, mother_tongue) ==
    [vocabulary |-> <<"vocab_list_">> \o PairName(language_to_learn, mother_tongue)
                        \o <<".csv">>,
     deck |-> <<"anki_deck_">> \o PairName(language_to_learn, mother_tongue)
                  \o <<".csv">>]

\* utils.get_backup_dir for a pair
get_backup_dir(language_to_learn, mother_tongue) ==
    <<".backup", "/">> \o PairName(language_to_learn, mother_tongue)

\* the calls made so far, with what they returned
PathCalls == IF pure = NoCall THEN <<>> ELSE pure.out

\* the number of calls followed
MaxCalls == 2

\* one more call is recorded
RecordPathCall(fn, language_to_learn, mother_tongue, out) ==
    \E raised \in {InvalidName(language_to_learn) \/ InvalidName(mother_tongue)} :
    /\ pure.fn \in {"none", "paths"}
    /\ Len(PathCalls) < MaxCalls
    /\ pure' = [fn |-> "paths", args |-> <<>>,
                out |-> Append(PathCalls,
                               [fn |-> fn,
                                language_to_learn |-> language_to_learn,
                                mother_tongue |-> mother_tongue,
                                error |-> IF raised THEN "ValueError" ELSE "none",
                                out |-> IF raised THEN <<>> ELSE out])]
    /\ UNCHANGED <<backupVars, fileVars, rawbak, migrated>>

\* a command resolves the files of a pair
PairFilesCall(language_to_learn, mother_tongue) ==
    RecordPathCall("get_pair_file_paths", language_to_learn, mother_tongue,
                   get_pair_file_paths(language_to_learn, mother_tongue))

\* a command resolves the backup directory of a pair
BackupDirCall(language_to_learn, mother_tongue) ==
    RecordPathCall("get_backup_dir", language_to_learn, mother_tongue,
                   get_backup_dir(language_to_learn, mother_tongue))

\* the language names the user gives
LanguageNames ==
    { <<>>, <<"a">>, <<"A">>, <<"b">>, <<"a", "-", "a">>, <<".", ".", "/">> }

InitPairs ==
    /\ BackupIdle
    /\ FileIdle
    /\ live = Absent
    /\ extbak = Absent

NextPairs ==
    \/ \E language_to_learn \in LanguageNames, mother_tongue \in LanguageNames :
          PairFilesCall(language_to_learn, mother_tongue)
    \/ \E language_to_learn \in LanguageNames, mother_tongue \in LanguageNames :
          BackupDirCall(language_to_learn, mother_tongue)

SpecPairs == InitPairs /\ [][NextPairs]_vars

\* the validated pair of a call that returned
ValidatedPair(call) ==
    <<validate_language_name(call.language_to_learn),
      validate_language_name(call.mother_tongue)>>

\* two calls of one function that returned, for different validated pairs
DistinctPairs(c, d) ==
    /\ c.fn = d.fn
    /\ c.error = "none"
    /\ d.error = "none"
    /\ ValidatedPair(c) # ValidatedPair(d)

\* C30: two different validated language pairs have different vocabulary
\* files, different deck files and different backup directories
C30_PairsHaveOwnPaths ==
    \A i, j \in 1..Len(PathCalls) :
        DistinctPairs(PathCalls[i], PathCalls[j]) =>
            IF PathCalls[i].fn = "get_pair_file_paths"
            THEN /\ PathCalls[i].out.vocabulary # PathCalls[j].out.vocabulary
                 /\ PathCalls[i].out.deck # PathCalls[j].out.deck
            ELSE PathCalls[i].out # PathCalls[j].out

====
